---- MODULE Spec2Model ----
(***************************************************************************)
(* Model of api/script/redis-manager.ts: the response cache and the        *)
(* deployment metrics ledger kept in a Redis store through two             *)
(* connections (ops, metrics).                                             *)
(*                                                                         *)
(* A text (JavaScript string) is a sequence of tokens, so that string      *)
(* concatenation is sequence concatenation.  A store value is always a     *)
(* text, as in Redis: counters are kept in decimal and parsed/formatted by *)
(* HINCRBY.  Every public operation is a call record in `calls`; a call    *)
(* advances one store command at a time, a command being issued, executed  *)
(* and answered in one step (each connection is first-in first-out, so the *)
(* order of execution is the order of issue).                              *)
(***************************************************************************)
EXTENDS Integers, Sequences, FiniteSets, TLC

(***************************************************************************)
(* Bounds of the model.                                                    *)
(***************************************************************************)
\* calls made in one behaviour of a specification of one subsystem
MaxCalls == 3
\* calls made in one behaviour of the whole manager (Spec)
MaxCallsAll == 2
\* calls made in one behaviour of RecordSpec
MaxRecordCalls == 2
\* metrics calls made in one behaviour of any specification
MaxMetricsCalls == 4
\* seconds that pass in one Tick of the store's clock
TickLen == 1800

(***************************************************************************)
(* Program constants.                                                      *)
(***************************************************************************)
DEPLOYMENT_SUCCEEDED == "DeploymentSucceeded"
DEPLOYMENT_FAILED == "DeploymentFailed"
ACTIVE == "Active"
DOWNLOADED == "Downloaded"
DEFAULT_EXPIRY == 3600
METRICS_DB == 1

(***************************************************************************)
(* JavaScript values.  null (and an omitted optional argument) is NULL,    *)
(* which is falsy and differs from every text the model uses.              *)
(***************************************************************************)
NULL == <<"<null>">>
Truthy(s) == s # NULL /\ s # <<>>

DigitChars == <<"0", "1", "2", "3", "4", "5", "6", "7", "8", "9">>

RECURSIVE ItoaNat(_)
ItoaNat(n) ==
  IF n < 10 THEN <<DigitChars[n + 1]>>
  ELSE ItoaNat(n \div 10) \o <<DigitChars[(n % 10) + 1]>>

\* Number.prototype.toString / Redis' decimal rendering of an integer
Itoa(n) == IF n < 0 THEN <<"-">> \o ItoaNat(-n) ELSE ItoaNat(n)

IsDigit(t) == \E i \in 1..10 : DigitChars[i] = t
DigitVal(t) == (CHOOSE i \in 1..10 : DigitChars[i] = t) - 1

RECURSIVE AtoiNat(_, _)
AtoiNat(s, acc) ==
  IF s = <<>> THEN acc ELSE AtoiNat(Tail(s), 10 * acc + DigitVal(Head(s)))

\* Redis' reading of a stored decimal text
Atoi(s) == IF Head(s) = "-" THEN 0 - AtoiNat(Tail(s), 0) ELSE AtoiNat(s, 0)

(***************************************************************************)
(* module Utilities                                                        *)
(***************************************************************************)
isValidDeploymentStatus(status) ==
  status = DEPLOYMENT_SUCCEEDED \/ status = DEPLOYMENT_FAILED \/ status = DOWNLOADED

getLabelStatusField(label, status) ==
  IF isValidDeploymentStatus(status) THEN label \o <<":">> \o <<status>> ELSE NULL

getLabelActiveCountField(label) ==
  IF Truthy(label) THEN label \o <<":">> \o <<ACTIVE>> ELSE NULL

getDeploymentKeyHash(deploymentKey) == <<"deploymentKey:">> \o deploymentKey

getDeploymentKeyLabelsHash(deploymentKey) == <<"deploymentKeyLabels:">> \o deploymentKey

getDeploymentKeyClientsHash(deploymentKey) == <<"deploymentKeyClients:">> \o deploymentKey

(***************************************************************************)
(* JSON values and JSON.stringify / JSON.parse.  A value is a record       *)
(* tagged by its type; an object is the sequence of its <<key, value>>     *)
(* members in insertion order.  The serialized form is a text.             *)
(***************************************************************************)
JNull == [t |-> "null"]
JBool(b) == [t |-> "bool", b |-> b]
JNum(n) == [t |-> "num", n |-> n]
JStr(s) == [t |-> "str", s |-> s]
JObj(kv) == [t |-> "obj", kv |-> kv]

RECURSIVE JSONStringify(_)
RECURSIVE StringifyMembers(_)
StringifyMembers(kv) ==
  IF kv = <<>> THEN <<>>
  ELSE <<"\"", kv[1][1], "\"", ":">> \o JSONStringify(kv[1][2])
       \o (IF Len(kv) > 1 THEN <<",">> \o StringifyMembers(Tail(kv)) ELSE <<>>)

\* JSON.stringify(value)
JSONStringify(v) ==
  CASE v.t = "null" -> <<"null">>
    [] v.t = "bool" -> IF v.b THEN <<"true">> ELSE <<"false">>
    [] v.t = "num"  -> Itoa(v.n)
    [] v.t = "str"  -> <<"\"">> \o v.s \o <<"\"">>
    [] v.t = "obj"  -> <<"{">> \o StringifyMembers(v.kv) \o <<"}">>

\* the longest prefix of s made of tokens that satisfy Keep
RECURSIVE TakeDigits(_)
TakeDigits(s) ==
  IF s # <<>> /\ IsDigit(Head(s)) THEN <<Head(s)>> \o TakeDigits(Tail(s)) ELSE <<>>

RECURSIVE TakeToQuote(_)
TakeToQuote(s) ==
  IF Head(s) = "\"" THEN <<>> ELSE <<Head(s)>> \o TakeToQuote(Tail(s))

Drop(s, n) == SubSeq(s, n + 1, Len(s))

RECURSIVE ParseValue(_)
RECURSIVE ParseMembers(_, _)
\* parses the members of an object, s standing after "{" or ","
ParseMembers(s, acc) ==
  IF Head(s) = "}" THEN [v |-> JObj(acc), rest |-> Tail(s)]
  ELSE LET key == s[2]
           val == ParseValue(Drop(s, 4))
           kv  == Append(acc, <<key, val.v>>)
       IN  IF Head(val.rest) = ","
           THEN ParseMembers(Tail(val.rest), kv)
           ELSE [v |-> JObj(kv), rest |-> Tail(val.rest)]

\* parses one value at the head of s: [v |-> the value, rest |-> what follows it]
ParseValue(s) ==
  CASE Head(s) = "null"  -> [v |-> JNull, rest |-> Tail(s)]
    [] Head(s) = "true"  -> [v |-> JBool(TRUE), rest |-> Tail(s)]
    [] Head(s) = "false" -> [v |-> JBool(FALSE), rest |-> Tail(s)]
    [] Head(s) = "\""    -> LET str == TakeToQuote(Tail(s))
                            IN  [v |-> JStr(str), rest |-> Drop(s, Len(str) + 2)]
    [] Head(s) = "{"     -> ParseMembers(Tail(s), <<>>)
    [] Head(s) = "-"     -> LET ds == TakeDigits(Tail(s))
                            IN  [v |-> JNum(0 - AtoiNat(ds, 0)), rest |-> Drop(s, Len(ds) + 1)]
    [] OTHER             -> LET ds == TakeDigits(s)
                            IN  [v |-> JNum(AtoiNat(ds, 0)), rest |-> Drop(s, Len(ds))]

\* JSON.parse(text)
JSONParse(s) == ParseValue(s).v

\* interface CacheableResponse { statusCode: number; body: any }
CacheableResponse(statusCode, body) ==
  JObj(<< <<"statusCode", JNum(statusCode)>>, <<"body", body>> >>)

(***************************************************************************)
(* The store: one Redis server holding numbered logical databases.  A      *)
(* database D is [data |-> key -> value, ttl |-> key -> seconds left]; a   *)
(* hash is a function field -> text, and exists only while it has fields.  *)
(***************************************************************************)
Restrict(f, S) == [x \in S |-> f[x]]
EmptyMap == <<>>
EmptyDb == [data |-> EmptyMap, ttl |-> EmptyMap]

\* EXISTS key
Exists(D, key) == IF key \in DOMAIN D.data THEN 1 ELSE 0

\* HGET key field
HGet(D, key, field) ==
  IF key \in DOMAIN D.data /\ field \in DOMAIN D.data[key] THEN D.data[key][field] ELSE NULL

\* HGETALL key
HGetAll(D, key) == IF key \in DOMAIN D.data THEN D.data[key] ELSE EmptyMap

\* HSET key field value
HSet(D, key, field, value) ==
  LET old == HGetAll(D, key)
  IN  [D EXCEPT !.data = (key :> ((field :> value) @@ old)) @@ D.data]

\* HINCRBY key field increment
HIncrBy(D, key, field, increment) ==
  LET cur == HGet(D, key, field)
      n   == IF cur = NULL THEN 0 ELSE Atoi(cur)
  IN  HSet(D, key, field, Itoa(n + increment))

\* DEL key [key ...]
Del(D, keys) ==
  [data |-> Restrict(D.data, DOMAIN D.data \ keys),
   ttl  |-> Restrict(D.ttl, DOMAIN D.ttl \ keys)]

\* HDEL key field
HDel(D, key, field) ==
  IF key \notin DOMAIN D.data THEN D
  ELSE LET left == DOMAIN D.data[key] \ {field}
       IN  IF left = {} THEN Del(D, {key})
           ELSE [D EXCEPT !.data[key] = Restrict(D.data[key], left)]

\* EXPIRE key seconds
Expire(D, key, seconds) ==
  IF key \in DOMAIN D.data THEN [D EXCEPT !.ttl = (key :> seconds) @@ D.ttl] ELSE D

\* SET key value
Set(D, key, value) ==
  [data |-> (key :> value) @@ D.data, ttl |-> Restrict(D.ttl, DOMAIN D.ttl \ {key})]

\* the passing of `seconds`: a key whose time to live runs out is removed
Elapse(D, seconds) ==
  LET dead == {k \in DOMAIN D.ttl : D.ttl[k] <= seconds}
      D1   == Del(D, dead)
  IN  [D1 EXCEPT !.ttl = [k \in DOMAIN D1.ttl |-> D1.ttl[k] - seconds]]

\* the effect of one command on a database; a command's arguments travel as
\* texts, numbers in decimal
Apply(D, c) ==
  CASE c.cmd = "hSet"    -> HSet(D, c.args[1], c.args[2], c.args[3])
    [] c.cmd = "hIncrBy" -> HIncrBy(D, c.args[1], c.args[2], Atoi(c.args[3]))
    [] c.cmd = "hDel"    -> HDel(D, c.args[1], c.args[2])
    [] c.cmd = "del"     -> Del(D, {c.args[i] : i \in 1..Len(c.args)})
    [] c.cmd = "expire"  -> Expire(D, c.args[1], Atoi(c.args[2]))
    [] c.cmd = "set"     -> Set(D, c.args[1], c.args[2])
    [] OTHER             -> D

RECURSIVE ApplyAll(_, _)
ApplyAll(D, cs) == IF cs = <<>> THEN D ELSE ApplyAll(Apply(D, Head(cs)), Tail(cs))

Cmd(conn, cmd, args) == [conn |-> conn, cmd |-> cmd, args |-> args]

(***************************************************************************)
(* The inputs the callers draw from.                                       *)
(***************************************************************************)
ExpiryKeys == {<<"k1">>, <<"k2">>}
Urls == {<<"/u1">>, <<"/u2">>}
Responses ==
  { CacheableResponse(200, JObj(<< <<"isAvailable", JBool(TRUE)>>, <<"label", JStr(<<"v1">>)>> >>)),
    CacheableResponse(404, JNum(-17)) }
DeploymentKeys == {<<"d1">>, <<"d2">>}
Labels == {<<"v1">>, <<"v2">>}
Statuses == {DEPLOYMENT_SUCCEEDED, DEPLOYMENT_FAILED, DOWNLOADED, "Unknown"}
ClientIds == {<<"c1">>, <<"c2">>}
Optional(S) == S \cup {NULL}

(***************************************************************************)
(* State.                                                                  *)
(*   clients  _opsClient and _metricsClient: whether the constructor made  *)
(*            it, whether it is open, and the database it has selected     *)
(*   store    the databases of the Redis server                            *)
(*   setup    _setupMetricsClientPromise: its position and the commands it *)
(*            has issued                                                   *)
(*   calls    the calls of public operations, in the order they were made  *)
(*   writer   for each cache field now stored, the call that wrote it last *)
(*   expired  the cache keys that the passing of time has removed          *)
(***************************************************************************)
VARIABLES clients, store, setup, calls, writer, expired

vars == <<clients, store, setup, calls, writer, expired>>

DbIndexes == {0, METRICS_DB}
NoClient == [made |-> FALSE, open |-> FALSE, db |-> 0]
NewClient == [made |-> TRUE, open |-> TRUE, db |-> 0]

\* a manager that takes itself for enabled whatever its configuration
isEnabledAlways == TRUE

\* get isEnabled
isEnabled == clients.ops.made /\ clients.metrics.made

\* the database a connection's commands act on
OpsDb == store[clients.ops.db]
MetricsDb == store[clients.metrics.db]

ResNull == [t |-> "null"]
ResVal(v) == [t |-> "val", v |-> v]
ResErr(e) == [t |-> "err", e |-> e]
NOT_ENABLED == "Redis manager is not enabled"
CLIENT_CLOSED == "The client is closed"

Pending(c) == c.out = "pending"
Quiescent == \A i \in 1..Len(calls) : ~Pending(calls[i])

\* a call as it stands when the operation returns its promise
NewCall(op, args, pc, out, res, cmds) ==
  [op |-> op, args |-> args, pc |-> pc, out |-> out, res |-> res, cmds |-> cmds,
   isNewKey |-> FALSE, created |-> FALSE, batch |-> <<>>, pings |-> <<>>, saw |-> 0,
   solo |-> Quiescent, after |-> {i \in 1..Len(calls) : ~Pending(calls[i])}]

\* the return of q(null) in disabled mode
Disabled(op, args) == NewCall(op, args, "done", "resolved", ResNull, <<>>)

\* a refusal that is swallowed: the operation reports success
RefusedSwallowed(op, args, cmd) == NewCall(op, args, "done", "resolved", ResNull, <<cmd>>)

\* a command refused by a client that has been closed
Refused(op, args, cmd) == NewCall(op, args, "done", "rejected", ResErr(CLIENT_CLOSED), <<cmd>>)

Settle(c, out, res) == [c EXCEPT !.pc = "done", !.out = out, !.res = res]

\* the cache fields of D that are still stored keep their writer
Prune(w, D) ==
  Restrict(w, {p \in DOMAIN w : p[1] \in DOMAIN D.data /\ p[2] \in DOMAIN D.data[p[1]]})

\* constructor; configured: process.env.REDIS_HOST && process.env.REDIS_PORT
Constructed(configured) ==
  /\ clients = IF configured THEN [ops |-> NewClient, metrics |-> NewClient]
               ELSE [ops |-> NoClient, metrics |-> NoClient]
  /\ setup = [pc |-> IF configured THEN "select" ELSE "none", cmds |-> <<>>]
  /\ store = [i \in DbIndexes |-> EmptyDb]
  /\ calls = <<>>
  /\ writer = EmptyMap
  /\ expired = {}

Init == \E configured \in BOOLEAN : Constructed(configured)

\* a manager constructed with the host and port configured
InitEnabled == Constructed(TRUE)

(***************************************************************************)
(* Cache operations (ops connection).                                      *)
(***************************************************************************)
\* isNewKey = !!isExisting: the collection is taken for new when it exists
IsNewKeyWhenExisting(isExisting) == isExisting # 0

\* isNewKey = !isExisting
IsNewKey(isExisting) == isExisting = 0

\* a field write that is never followed by an expire
NeedsExpireNever(isNewKey) == FALSE

\* an expire after every field write, whatever the exists check found
NeedsExpireAlways(isNewKey) == TRUE

\* if (isNewKey) return expire(expiryKey, DEFAULT_EXPIRY)
NeedsExpire(isNewKey) == isNewKey

\* a getCachedResponse that hands the stored text back without JSON.parse
CachedResponseUnparsed(serializedResponse) ==
  IF Truthy(serializedResponse) THEN ResVal(serializedResponse) ELSE ResNull

\* the value getCachedResponse resolves with, given the reply of hGet
CachedResponse(serializedResponse) ==
  IF Truthy(serializedResponse) THEN ResVal(JSONParse(serializedResponse)) ELSE ResNull

\* an invalidateCache that renews the collection's lifetime and keeps it
InvalidateCommandExpire(expiryKey) == Cmd("ops", "expire", <<expiryKey, Itoa(DEFAULT_EXPIRY)>>)

\* the command of invalidateCache
InvalidateCommand(expiryKey) == Cmd("ops", "del", <<expiryKey>>)

\* getCachedResponse(expiryKey, url)
getCachedResponse(expiryKey, url) ==
  LET args == [expiryKey |-> expiryKey, url |-> url]
      cmd  == Cmd("ops", "hGet", <<expiryKey, url>>)
      res  == CachedResponse(HGet(OpsDb, expiryKey, url))
      seen == IF <<expiryKey, url>> \in DOMAIN writer THEN writer[<<expiryKey, url>>] ELSE 0
  IN  /\ Len(calls) < MaxCalls
      /\ calls' = Append(calls,
           IF ~isEnabled THEN Disabled("getCachedResponse", args)
           ELSE IF ~clients.ops.open THEN Refused("getCachedResponse", args, cmd)
           ELSE [NewCall("getCachedResponse", args, "done", "resolved", res, <<cmd>>)
                   EXCEPT !.saw = seen])
      /\ UNCHANGED <<clients, store, setup, writer, expired>>

\* setCachedResponse(expiryKey, url, response): up to the exists command
setCachedResponse(expiryKey, url, response) ==
  LET args == [expiryKey |-> expiryKey, url |-> url, response |-> response]
      cmd  == Cmd("ops", "exists", <<expiryKey>>)
      isExisting == Exists(OpsDb, expiryKey)
  IN  /\ Len(calls) < MaxCalls
      /\ calls' = Append(calls,
           IF ~isEnabled THEN Disabled("setCachedResponse", args)
           ELSE IF ~clients.ops.open THEN Refused("setCachedResponse", args, cmd)
           ELSE [NewCall("setCachedResponse", args, "hSet", "pending", ResNull, <<cmd>>)
                   EXCEPT !.isNewKey = IsNewKey(isExisting)])
      /\ UNCHANGED <<clients, store, setup, writer, expired>>

\* setCachedResponse: the hSet command, issued when exists has answered
setCachedResponse_hSet(i) ==
  LET c   == calls[i]
      serializedResponse == JSONStringify(c.args.response)
      cmd == Cmd("ops", "hSet", <<c.args.expiryKey, c.args.url, serializedResponse>>)
      c1  == [c EXCEPT !.cmds = Append(@, cmd),
                       !.created = (Exists(OpsDb, c.args.expiryKey) = 0)]
  IN  /\ c.op = "setCachedResponse" /\ c.pc = "hSet"
      /\ IF clients.ops.open
         THEN /\ store' = [store EXCEPT ![clients.ops.db] = Apply(@, cmd)]
              /\ writer' = (<<c.args.expiryKey, c.args.url>> :> i) @@ writer
              /\ calls' = [calls EXCEPT ![i] =
                   IF NeedsExpire(c.isNewKey) THEN [c1 EXCEPT !.pc = "expire"]
                   ELSE Settle(c1, "resolved", ResNull)]
         ELSE /\ calls' = [calls EXCEPT ![i] = Settle(c1, "rejected", ResErr(CLIENT_CLOSED))]
              /\ UNCHANGED <<store, writer>>
      /\ UNCHANGED <<clients, setup, expired>>

\* setCachedResponse: the expire command, issued when hSet has answered
setCachedResponse_expire(i) ==
  LET c   == calls[i]
      cmd == Cmd("ops", "expire", <<c.args.expiryKey, Itoa(DEFAULT_EXPIRY)>>)
      c1  == [c EXCEPT !.cmds = Append(@, cmd)]
  IN  /\ c.op = "setCachedResponse" /\ c.pc = "expire"
      /\ IF clients.ops.open
         THEN /\ store' = [store EXCEPT ![clients.ops.db] = Apply(@, cmd)]
              /\ calls' = [calls EXCEPT ![i] = Settle(c1, "resolved", ResNull)]
         ELSE /\ calls' = [calls EXCEPT ![i] = Settle(c1, "rejected", ResErr(CLIENT_CLOSED))]
              /\ UNCHANGED store
      /\ UNCHANGED <<clients, setup, writer, expired>>

\* invalidateCache(expiryKey)
invalidateCache(expiryKey) ==
  LET args == [expiryKey |-> expiryKey]
      cmd  == InvalidateCommand(expiryKey)
      D    == Apply(OpsDb, cmd)
  IN  /\ Len(calls) < MaxCalls
      /\ IF isEnabled /\ clients.ops.open
         THEN /\ store' = [store EXCEPT ![clients.ops.db] = D]
              /\ writer' = Prune(writer, D)
              /\ calls' = Append(calls,
                   NewCall("invalidateCache", args, "done", "resolved", ResNull, <<cmd>>))
         ELSE /\ calls' = Append(calls,
                   IF ~isEnabled THEN Disabled("invalidateCache", args)
                   ELSE Refused("invalidateCache", args, cmd))
              /\ UNCHANGED <<store, writer>>
      /\ UNCHANGED <<clients, setup, expired>>

\* the store's clock: TickLen seconds pass and the keys due by then expire
Tick ==
  /\ \E n \in DbIndexes : DOMAIN store[n].ttl # {}
  /\ store' = [n \in DbIndexes |-> Elapse(store[n], TickLen)]
  /\ writer' = Prune(writer, store'[0])
  /\ expired' = expired \cup (DOMAIN store[0].data \ DOMAIN store'[0].data)
  /\ UNCHANGED <<clients, setup, calls>>


(***************************************************************************)
(* The one-time setup of the metrics connection, started by the            *)
(* constructor: select(METRICS_DB), then set("health", "health").          *)
(***************************************************************************)
\* a setup whose select leaves the metrics connection on the default database
SetupSelectNothing ==
  /\ setup.pc = "select"
  /\ setup' = [pc |-> "set",
               cmds |-> Append(setup.cmds, Cmd("metrics", "select", <<Itoa(METRICS_DB)>>))]
  /\ UNCHANGED <<clients, store, calls, writer, expired>>

SetupSelect ==
  LET cmd == Cmd("metrics", "select", <<Itoa(METRICS_DB)>>)
  IN  /\ setup.pc = "select"
      /\ IF clients.metrics.open
         THEN /\ clients' = [clients EXCEPT !.metrics.db = METRICS_DB]
              /\ setup' = [pc |-> "set", cmds |-> Append(setup.cmds, cmd)]
         ELSE /\ setup' = [pc |-> "rejected", cmds |-> Append(setup.cmds, cmd)]
              /\ UNCHANGED clients
      /\ UNCHANGED <<store, calls, writer, expired>>

SetupSetHealth ==
  LET cmd == Cmd("metrics", "set", <<(<<"health">>), (<<"health">>)>>)
  IN  /\ setup.pc = "set"
      /\ IF clients.metrics.open
         THEN /\ store' = [store EXCEPT ![clients.metrics.db] = Apply(@, cmd)]
              /\ setup' = [pc |-> "resolved", cmds |-> Append(setup.cmds, cmd)]
         ELSE /\ setup' = [pc |-> "rejected", cmds |-> Append(setup.cmds, cmd)]
              /\ UNCHANGED store
      /\ UNCHANGED <<clients, calls, writer, expired>>

(***************************************************************************)
(* Metrics operations (metrics connection).  Each returns                  *)
(* _setupMetricsClientPromise.then(callback): the call waits at "await"    *)
(* until the setup has settled, and is rejected with it if it failed.      *)
(***************************************************************************)
SETUP_FAILED == "metrics setup failed"
INVALID_ARGUMENT == "Invalid argument type"

\* a metrics operation up to the return of its promise
MetricsCall(op, args) ==
  /\ Len(calls) < MaxMetricsCalls
  /\ calls' = Append(calls,
       IF ~isEnabled THEN Disabled(op, args)
       ELSE NewCall(op, args, "await", "pending", ResNull, <<>>))
  /\ UNCHANGED <<clients, store, setup, writer, expired>>

\* a callback that runs without waiting for the setup
AwaitedAtOnce(i, op) == calls[i].op = op /\ calls[i].pc = "await"

\* the callback of call i may run
Awaited(i, op) ==
  /\ calls[i].op = op /\ calls[i].pc = "await"
  /\ setup.pc \in {"resolved", "rejected"}

\* what a client does with a command one of whose arguments is null where
\* the method is declared to take a string: it refuses the command, or sends
\* it with the argument rendered as text
NullArgumentOutcomes == {"refused", "coerced"}
HasNullArgument(cmd) == \E n \in 1..Len(cmd.args) : cmd.args[n] = NULL
Coerced(cmd) ==
  [cmd EXCEPT !.args = [n \in 1..Len(cmd.args) |->
                          IF cmd.args[n] = NULL THEN <<"null">> ELSE cmd.args[n]]]

\* call i issues the one command cmd of its callback and settles with `res`
\* (the value it resolves with if the command succeeds)
MetricsCommand(i, cmd, res) ==
  LET c1 == [calls[i] EXCEPT !.cmds = Append(@, cmd)]
  IN  IF setup.pc = "rejected"
      THEN /\ calls' = [calls EXCEPT ![i] = Settle(calls[i], "rejected", ResErr(SETUP_FAILED))]
           /\ UNCHANGED store
      ELSE IF ~clients.metrics.open
      THEN /\ calls' = [calls EXCEPT ![i] = Settle(c1, "rejected", ResErr(CLIENT_CLOSED))]
           /\ UNCHANGED store
      ELSE IF HasNullArgument(cmd)
      THEN \E outcome \in NullArgumentOutcomes :
             IF outcome = "refused"
             THEN /\ calls' = [calls EXCEPT ![i] =
                                 Settle(c1, "rejected", ResErr(INVALID_ARGUMENT))]
                  /\ UNCHANGED store
             ELSE /\ calls' = [calls EXCEPT ![i] = Settle(c1, "resolved", res)]
                  /\ store' = [store EXCEPT ![clients.metrics.db] = Apply(@, Coerced(cmd))]
      ELSE /\ calls' = [calls EXCEPT ![i] = Settle(c1, "resolved", res)]
           /\ store' = [store EXCEPT ![clients.metrics.db] = Apply(@, cmd)]

\* an increment written as a plain store of 1
IncrementCommandAsSet(deploymentKey, label, status) ==
  Cmd("metrics", "hSet",
      <<getDeploymentKeyLabelsHash(deploymentKey), getLabelStatusField(label, status), Itoa(1)>>)

\* the command of incrementLabelStatusCount
IncrementCommand(deploymentKey, label, status) ==
  LET hash  == getDeploymentKeyLabelsHash(deploymentKey)
      field == getLabelStatusField(label, status)
  IN  Cmd("metrics", "hIncrBy", <<hash, field, Itoa(1)>>)

\* incrementLabelStatusCount(deploymentKey, label, status)
incrementLabelStatusCount(deploymentKey, label, status) ==
  MetricsCall("incrementLabelStatusCount",
              [deploymentKey |-> deploymentKey, label |-> label, status |-> status])

incrementLabelStatusCount_then(i) ==
  LET a == calls[i].args
  IN  /\ Awaited(i, "incrementLabelStatusCount")
      /\ MetricsCommand(i, IncrementCommand(a.deploymentKey, a.label, a.status), ResNull)
      /\ UNCHANGED <<clients, setup, writer, expired>>

\* a clear that deletes the labels hash and leaves the clients hash
ClearCommandLabelsOnly(deploymentKey) ==
  Cmd("metrics", "del", <<getDeploymentKeyLabelsHash(deploymentKey)>>)

\* the command of clearMetricsForDeploymentKey
ClearCommand(deploymentKey) ==
  Cmd("metrics", "del", <<getDeploymentKeyLabelsHash(deploymentKey),
                          getDeploymentKeyClientsHash(deploymentKey)>>)

\* clearMetricsForDeploymentKey(deploymentKey)
clearMetricsForDeploymentKey(deploymentKey) ==
  MetricsCall("clearMetricsForDeploymentKey", [deploymentKey |-> deploymentKey])

clearMetricsForDeploymentKey_then(i) ==
  /\ Awaited(i, "clearMetricsForDeploymentKey")
  /\ MetricsCommand(i, ClearCommand(calls[i].args.deploymentKey), ResNull)
  /\ UNCHANGED <<clients, setup, writer, expired>>

\* !isNaN(Number(text)) for the texts a labels hash holds
IsNumeric(text) ==
  /\ text # <<>>
  /\ LET digits == IF Head(text) = "-" THEN Tail(text) ELSE text
     IN  digits # <<>> /\ \A n \in 1..Len(digits) : IsDigit(digits[n])

\* String.prototype.toString
toString(text) == text

\* what getMetricsWithDeploymentKey resolves with, given the reply of hGetAll
DeploymentMetrics(metrics) ==
  [metricField \in DOMAIN metrics |->
     IF IsNumeric(metrics[metricField]) THEN toString(metrics[metricField])
     ELSE metrics[metricField]]

\* getMetricsWithDeploymentKey(deploymentKey)
getMetricsWithDeploymentKey(deploymentKey) ==
  MetricsCall("getMetricsWithDeploymentKey", [deploymentKey |-> deploymentKey])

getMetricsWithDeploymentKey_then(i) ==
  LET hash == getDeploymentKeyLabelsHash(calls[i].args.deploymentKey)
  IN  /\ Awaited(i, "getMetricsWithDeploymentKey")
      /\ MetricsCommand(i, Cmd("metrics", "hGetAll", <<hash>>),
                        ResVal(DeploymentMetrics(HGetAll(MetricsDb, hash))))
      /\ UNCHANGED <<clients, setup, writer, expired>>

\* removeDeploymentKeyClientActiveLabel(deploymentKey, clientUniqueId)
removeDeploymentKeyClientActiveLabel(deploymentKey, clientUniqueId) ==
  MetricsCall("removeDeploymentKeyClientActiveLabel",
              [deploymentKey |-> deploymentKey, clientUniqueId |-> clientUniqueId])

removeDeploymentKeyClientActiveLabel_then(i) ==
  LET a == calls[i].args
      deploymentKeyClientsHash == getDeploymentKeyClientsHash(a.deploymentKey)
  IN  /\ Awaited(i, "removeDeploymentKeyClientActiveLabel")
      /\ MetricsCommand(i, Cmd("metrics", "hDel", <<deploymentKeyClientsHash, a.clientUniqueId>>),
                        ResNull)
      /\ UNCHANGED <<clients, setup, writer, expired>>

\* getCurrentActiveLabel(deploymentKey, clientUniqueId)
getCurrentActiveLabel(deploymentKey, clientUniqueId) ==
  MetricsCall("getCurrentActiveLabel",
              [deploymentKey |-> deploymentKey, clientUniqueId |-> clientUniqueId])

getCurrentActiveLabel_then(i) ==
  LET a     == calls[i].args
      hash  == getDeploymentKeyClientsHash(a.deploymentKey)
      label == HGet(MetricsDb, hash, a.clientUniqueId)
  IN  /\ Awaited(i, "getCurrentActiveLabel")
      /\ MetricsCommand(i, Cmd("metrics", "hGet", <<hash, a.clientUniqueId>>),
                        IF label = NULL THEN ResNull ELSE ResVal(label))
      /\ UNCHANGED <<clients, setup, writer, expired>>

(***************************************************************************)
(* Batched metrics operations: the callback queues its commands on         *)
(* this._metricsClient.multi() and hands the batch to execBatch; the store *)
(* executes the commands of one batch as one unit.                         *)
(***************************************************************************)
\* a recordUpdate that sends each increment as a batch of its own
RecordUpdateSeparately(currentDeploymentKey, currentLabel, previousDeploymentKey, previousLabel) ==
  LET hash == getDeploymentKeyLabelsHash(currentDeploymentKey)
  IN  << << Cmd("metrics", "hIncrBy", <<hash, getLabelActiveCountField(currentLabel), Itoa(1)>>) >>,
         << Cmd("metrics", "hIncrBy",
                <<hash, getLabelStatusField(currentLabel, DEPLOYMENT_SUCCEEDED), Itoa(1)>>) >> >>
      \o (IF Truthy(previousDeploymentKey) /\ Truthy(previousLabel)
          THEN << << Cmd("metrics", "hIncrBy",
                         <<getDeploymentKeyLabelsHash(previousDeploymentKey),
                           getLabelActiveCountField(previousLabel), Itoa(-1)>>) >> >>
          ELSE <<>>)

\* a recordUpdate that never takes the previous label's client off
RecordUpdateNoDecrement(currentDeploymentKey, currentLabel, previousDeploymentKey, previousLabel) ==
  LET hash == getDeploymentKeyLabelsHash(currentDeploymentKey)
  IN  << << Cmd("metrics", "hIncrBy", <<hash, getLabelActiveCountField(currentLabel), Itoa(1)>>),
            Cmd("metrics", "hIncrBy",
                <<hash, getLabelStatusField(currentLabel, DEPLOYMENT_SUCCEEDED), Itoa(1)>>) >> >>

\* a recordUpdate that takes the previous label off the current deployment's hash
RecordUpdateOneHash(currentDeploymentKey, currentLabel, previousDeploymentKey, previousLabel) ==
  LET hash == getDeploymentKeyLabelsHash(currentDeploymentKey)
  IN  << << Cmd("metrics", "hIncrBy", <<hash, getLabelActiveCountField(currentLabel), Itoa(1)>>),
            Cmd("metrics", "hIncrBy",
                <<hash, getLabelStatusField(currentLabel, DEPLOYMENT_SUCCEEDED), Itoa(1)>>) >>
         \o (IF Truthy(previousDeploymentKey) /\ Truthy(previousLabel)
             THEN << Cmd("metrics", "hIncrBy",
                         <<hash, getLabelActiveCountField(previousLabel), Itoa(-1)>>) >>
             ELSE <<>>) >>

\* the batches of recordUpdate: one multi holding two or three increments
RecordUpdateBatches(currentDeploymentKey, currentLabel, previousDeploymentKey, previousLabel) ==
  LET currentDeploymentKeyLabelsHash == getDeploymentKeyLabelsHash(currentDeploymentKey)
      currentLabelActiveField == getLabelActiveCountField(currentLabel)
      currentLabelDeploymentSucceededField ==
        getLabelStatusField(currentLabel, DEPLOYMENT_SUCCEEDED)
      current ==
        << Cmd("metrics", "hIncrBy", <<currentDeploymentKeyLabelsHash, currentLabelActiveField, Itoa(1)>>),
           Cmd("metrics", "hIncrBy",
               <<currentDeploymentKeyLabelsHash, currentLabelDeploymentSucceededField, Itoa(1)>>) >>
      previous ==
        IF Truthy(previousDeploymentKey) /\ Truthy(previousLabel)
        THEN << Cmd("metrics", "hIncrBy",
                    <<getDeploymentKeyLabelsHash(previousDeploymentKey),
                      getLabelActiveCountField(previousLabel), Itoa(-1)>>) >>
        ELSE <<>>
  IN  << current \o previous >>

\* the batches of updateActiveAppForClient: one multi
UpdateActiveAppBatches(deploymentKey, clientUniqueId, toLabel, fromLabel) ==
  LET deploymentKeyLabelsHash == getDeploymentKeyLabelsHash(deploymentKey)
      deploymentKeyClientsHash == getDeploymentKeyClientsHash(deploymentKey)
      to ==
        << Cmd("metrics", "hSet", <<deploymentKeyClientsHash, clientUniqueId, toLabel>>),
           Cmd("metrics", "hIncrBy",
               <<deploymentKeyLabelsHash, getLabelActiveCountField(toLabel), Itoa(1)>>) >>
      from ==
        IF Truthy(fromLabel)
        THEN << Cmd("metrics", "hIncrBy",
                    <<deploymentKeyLabelsHash, getLabelActiveCountField(fromLabel), Itoa(-1)>>) >>
        ELSE <<>>
  IN  << to \o from >>

\* the callback of a batched operation: the batches are built and handed over
Batched(i, batches) ==
  /\ calls' = [calls EXCEPT ![i] =
       IF setup.pc = "rejected" THEN Settle(calls[i], "rejected", ResErr(SETUP_FAILED))
       ELSE [calls[i] EXCEPT !.pc = "exec", !.batch = batches]]
  /\ UNCHANGED <<clients, store, setup, writer, expired>>

\* recordUpdate(currentDeploymentKey, currentLabel, previousDeploymentKey?, previousLabel?)
recordUpdate(currentDeploymentKey, currentLabel, previousDeploymentKey, previousLabel) ==
  MetricsCall("recordUpdate",
              [currentDeploymentKey |-> currentDeploymentKey, currentLabel |-> currentLabel,
               previousDeploymentKey |-> previousDeploymentKey, previousLabel |-> previousLabel])

recordUpdate_then(i) ==
  LET a == calls[i].args
  IN  /\ Awaited(i, "recordUpdate")
      /\ Batched(i, RecordUpdateBatches(a.currentDeploymentKey, a.currentLabel,
                                        a.previousDeploymentKey, a.previousLabel))

\* updateActiveAppForClient(deploymentKey, clientUniqueId, toLabel, fromLabel?)
updateActiveAppForClient(deploymentKey, clientUniqueId, toLabel, fromLabel) ==
  MetricsCall("updateActiveAppForClient",
              [deploymentKey |-> deploymentKey, clientUniqueId |-> clientUniqueId,
               toLabel |-> toLabel, fromLabel |-> fromLabel])

updateActiveAppForClient_then(i) ==
  LET a == calls[i].args
  IN  /\ Awaited(i, "updateActiveAppForClient")
      /\ Batched(i, UpdateActiveAppBatches(a.deploymentKey, a.clientUniqueId,
                                           a.toLabel, a.fromLabel))

\* execBatch: the store executes MULTI, the commands of the batch, EXEC
execBatch(i) ==
  LET c     == calls[i]
      batch == Head(c.batch)
      sent  == <<Cmd("metrics", "multi", <<>>)>> \o batch \o <<Cmd("metrics", "exec", <<>>)>>
      c1    == [c EXCEPT !.cmds = @ \o sent, !.batch = Tail(@)]
  IN  /\ c.pc = "exec" /\ c.batch # <<>>
      /\ IF clients.metrics.open
         THEN /\ store' = [store EXCEPT ![clients.metrics.db] = ApplyAll(@, batch)]
              /\ calls' = [calls EXCEPT ![i] =
                   IF Tail(c.batch) = <<>> THEN Settle(c1, "resolved", ResNull) ELSE c1]
         ELSE /\ calls' = [calls EXCEPT ![i] = Settle(c1, "rejected", ResErr(CLIENT_CLOSED))]
              /\ UNCHANGED store
      /\ UNCHANGED <<clients, setup, writer, expired>>

(***************************************************************************)
(* checkHealth and close.                                                  *)
(***************************************************************************)
\* checkHealth(): both pings are issued at once
checkHealth ==
  LET sent == <<Cmd("ops", "ping", <<>>), Cmd("metrics", "ping", <<>>)>>
  IN  /\ Len(calls) < MaxCalls
      /\ calls' = Append(calls,
           IF ~isEnabled
           THEN NewCall("checkHealth", <<>>, "done", "rejected", ResErr(NOT_ENABLED), <<>>)
           ELSE [NewCall("checkHealth", <<>>, "pings", "pending", ResNull, sent)
                   EXCEPT !.pings = [ops |-> "wait", metrics |-> "wait"]])
      /\ UNCHANGED <<clients, store, setup, writer, expired>>

\* a health check satisfied by the first ping that succeeds
AllPingsAny(pings) ==
  IF pings.ops = "ok" \/ pings.metrics = "ok" THEN "resolved"
  ELSE IF pings.ops = "fail" /\ pings.metrics = "fail" THEN "rejected"
  ELSE "pending"

\* q.all([ping, ping]): resolved when both have succeeded, rejected by the
\* first that fails
AllPings(pings) ==
  IF pings.ops = "fail" \/ pings.metrics = "fail" THEN "rejected"
  ELSE IF pings.ops = "ok" /\ pings.metrics = "ok" THEN "resolved"
  ELSE "pending"

\* the ping on connection conn is answered (ok) or fails
checkHealth_ping(i, conn, ok) ==
  LET c     == calls[i]
      pings == [c.pings EXCEPT ![conn] = IF ok /\ clients[conn].open THEN "ok" ELSE "fail"]
      out   == IF c.out = "pending" THEN AllPings(pings) ELSE c.out
  IN  /\ c.op = "checkHealth" /\ c.pc = "pings" /\ c.pings[conn] = "wait"
      /\ calls' = [calls EXCEPT ![i] =
           [c EXCEPT !.pings = pings, !.out = out,
                     !.res = IF out = "rejected" /\ c.out = "pending"
                             THEN ResErr("ping failed") ELSE @,
                     !.pc = IF pings.ops # "wait" /\ pings.metrics # "wait" THEN "done" ELSE @]]
      /\ UNCHANGED <<clients, store, setup, writer, expired>>

\* close()
close ==
  /\ Len(calls) < MaxCalls
  /\ calls' = Append(calls,
       IF ~clients.ops.made /\ ~clients.metrics.made THEN Disabled("close", <<>>)
       ELSE NewCall("close", <<>>, "quitOps", "pending", ResNull, <<>>))
  /\ UNCHANGED <<clients, store, setup, writer, expired>>

\* close: quit on one connection, the metrics connection after the ops one
close_quit(i, conn) ==
  LET c  == calls[i]
      c1 == [c EXCEPT !.cmds = Append(@, Cmd(conn, "quit", <<>>))]
  IN  /\ c.op = "close" /\ c.pc = (IF conn = "ops" THEN "quitOps" ELSE "quitMetrics")
      /\ IF ~clients[conn].made
         THEN /\ calls' = [calls EXCEPT ![i] =
                   IF conn = "ops" THEN [c EXCEPT !.pc = "quitMetrics"]
                   ELSE Settle(c, "resolved", ResNull)]
              /\ UNCHANGED clients
         ELSE IF clients[conn].open
         THEN /\ clients' = [clients EXCEPT ![conn].open = FALSE]
              /\ calls' = [calls EXCEPT ![i] =
                   IF conn = "ops" THEN [c1 EXCEPT !.pc = "quitMetrics"]
                   ELSE Settle(c1, "resolved", ResNull)]
         ELSE /\ calls' = [calls EXCEPT ![i] = Settle(c1, "rejected", ResErr(CLIENT_CLOSED))]
              /\ UNCHANGED clients
      /\ UNCHANGED <<store, setup, writer, expired>>

(***************************************************************************)
(* Specifications.                                                         *)
(***************************************************************************)
Setup == SetupSelect \/ SetupSetHealth

CacheNext ==
  \/ \E k \in ExpiryKeys, u \in Urls : getCachedResponse(k, u)
  \/ \E k \in ExpiryKeys, u \in Urls, r \in Responses : setCachedResponse(k, u, r)
  \/ \E i \in 1..Len(calls) : setCachedResponse_hSet(i)
  \/ \E i \in 1..Len(calls) : setCachedResponse_expire(i)
  \/ \E k \in ExpiryKeys : invalidateCache(k)
  \/ Tick

\* the response cache alone, in an enabled manager
CacheSpec == InitEnabled /\ [][CacheNext]_vars

IncrementNext ==
  \/ Setup
  \/ /\ Len(calls) < MaxCalls
     /\ \E d \in DeploymentKeys, l \in Labels, st \in Statuses : incrementLabelStatusCount(d, l, st)
  \/ \E i \in 1..Len(calls) : incrementLabelStatusCount_then(i)
  \/ Len(calls) < MaxCalls /\ \E d \in DeploymentKeys : getMetricsWithDeploymentKey(d)
  \/ \E i \in 1..Len(calls) : getMetricsWithDeploymentKey_then(i)

\* the status counters alone, in an enabled manager
IncrementSpec == InitEnabled /\ [][IncrementNext]_vars

\* an operation on the labels hashes is called
RecordCall ==
  \/ \E d \in DeploymentKeys, l \in Labels, pd \in Optional(DeploymentKeys), pl \in Optional(Labels) :
       recordUpdate(d, l, pd, pl)
  \/ \E d \in DeploymentKeys, l \in Labels : incrementLabelStatusCount(d, l, DEPLOYMENT_SUCCEEDED)
  \/ \E d \in DeploymentKeys : clearMetricsForDeploymentKey(d)
  \/ \E d \in DeploymentKeys : getMetricsWithDeploymentKey(d)

RecordNext ==
  \/ Setup
  \/ Len(calls) < MaxRecordCalls /\ RecordCall
  \/ \E i \in 1..Len(calls) : recordUpdate_then(i)
  \/ \E i \in 1..Len(calls) : execBatch(i)
  \/ \E i \in 1..Len(calls) : incrementLabelStatusCount_then(i)
  \/ \E i \in 1..Len(calls) : clearMetricsForDeploymentKey_then(i)
  \/ \E i \in 1..Len(calls) : getMetricsWithDeploymentKey_then(i)

\* recordUpdate among the other operations on the labels hashes, in an
\* enabled manager
RecordSpec == InitEnabled /\ [][RecordNext]_vars

\* the one client of ClearSpec
ClearClient == <<"c1">>

\* an operation on the two hashes of a deployment key is called
ClearCall ==
  \/ \E d \in DeploymentKeys, to \in Labels : updateActiveAppForClient(d, ClearClient, to, NULL)
  \/ \E d \in DeploymentKeys : clearMetricsForDeploymentKey(d)
  \/ \E d \in DeploymentKeys : getMetricsWithDeploymentKey(d)
  \/ \E d \in DeploymentKeys : getCurrentActiveLabel(d, ClearClient)

ClearNext ==
  \/ Setup
  \/ Len(calls) < MaxCalls /\ ClearCall
  \/ \E i \in 1..Len(calls) : updateActiveAppForClient_then(i)
  \/ \E i \in 1..Len(calls) : execBatch(i)
  \/ \E i \in 1..Len(calls) : clearMetricsForDeploymentKey_then(i)
  \/ \E i \in 1..Len(calls) : getMetricsWithDeploymentKey_then(i)
  \/ \E i \in 1..Len(calls) : getCurrentActiveLabel_then(i)

\* clearMetricsForDeploymentKey among writes and reads of the two hashes, in
\* an enabled manager
ClearSpec == InitEnabled /\ [][ClearNext]_vars

\* a deployment key, and a cache key and url that read exactly like its labels
\* hash and one of that hash's fields
SharedDeploymentKey == <<"d1">>
SharedLabel == <<"v1">>
SharedKey == getDeploymentKeyLabelsHash(SharedDeploymentKey)
SharedField == getLabelStatusField(SharedLabel, DEPLOYMENT_SUCCEEDED)

\* a cache operation or a metrics operation is called on that name
IsolationCall ==
  \/ \E r \in Responses : setCachedResponse(SharedKey, SharedField, r)
  \/ getCachedResponse(SharedKey, SharedField)
  \/ invalidateCache(SharedKey)
  \/ incrementLabelStatusCount(SharedDeploymentKey, SharedLabel, DEPLOYMENT_SUCCEEDED)
  \/ getMetricsWithDeploymentKey(SharedDeploymentKey)
  \/ clearMetricsForDeploymentKey(SharedDeploymentKey)

IsolationNext ==
  \/ Setup
  \/ Len(calls) < MaxCalls /\ IsolationCall
  \/ \E i \in 1..Len(calls) : setCachedResponse_hSet(i)
  \/ \E i \in 1..Len(calls) : setCachedResponse_expire(i)
  \/ \E i \in 1..Len(calls) : incrementLabelStatusCount_then(i)
  \/ \E i \in 1..Len(calls) : getMetricsWithDeploymentKey_then(i)
  \/ \E i \in 1..Len(calls) : clearMetricsForDeploymentKey_then(i)
  \/ Tick

\* the cache and the ledger used under one and the same key, in an enabled
\* manager
IsolationSpec == InitEnabled /\ [][IsolationNext]_vars

\* a client reports an installation, with the previous pair or with none, or
\* the metrics of a deployment key are cleared
ReportCall ==
  \/ \E d \in DeploymentKeys, l \in Labels : recordUpdate(d, l, NULL, NULL)
  \/ \E d \in DeploymentKeys, l \in Labels, pd \in DeploymentKeys, pl \in Labels :
       recordUpdate(d, l, pd, pl)
  \/ \E d \in DeploymentKeys : clearMetricsForDeploymentKey(d)

ReportNext ==
  \/ Setup
  \/ Len(calls) < MaxCalls /\ ReportCall
  \/ \E i \in 1..Len(calls) : recordUpdate_then(i)
  \/ \E i \in 1..Len(calls) : execBatch(i)
  \/ \E i \in 1..Len(calls) : clearMetricsForDeploymentKey_then(i)

\* installation reports and clears alone, in an enabled manager
ReportSpec == InitEnabled /\ [][ReportNext]_vars

\* the deployment key of LegacySpec
LegacyDeploymentKey == <<"d1">>
\* the getCurrentActiveLabel and the updateActiveAppForClient calls made so
\* far for client c
LegacyReads(c) ==
  {i \in 1..Len(calls) : calls[i].op = "getCurrentActiveLabel" /\ calls[i].args.clientUniqueId = c}
LegacyUpdates(c) ==
  {i \in 1..Len(calls) : calls[i].op = "updateActiveAppForClient" /\ calls[i].args.clientUniqueId = c}

\* a caller that has read the active label of client c updates it to label
\* `to`, passing what it read as fromLabel; callers update in the order in
\* which they read
LegacyUpdate(c, to) ==
  \E r \in LegacyReads(c) :
    /\ Cardinality({q \in LegacyReads(c) : q < r}) = Cardinality(LegacyUpdates(c))
    /\ calls[r].out = "resolved"
    /\ updateActiveAppForClient(LegacyDeploymentKey, c, to,
                                IF calls[r].res = ResNull THEN NULL ELSE calls[r].res.v)

LegacyNext ==
  \/ Setup
  \/ \E c \in ClientIds : getCurrentActiveLabel(LegacyDeploymentKey, c)
  \/ \E c \in ClientIds, to \in Labels : LegacyUpdate(c, to)
  \/ \E i \in 1..Len(calls) : getCurrentActiveLabel_then(i)
  \/ \E i \in 1..Len(calls) : updateActiveAppForClient_then(i)
  \/ \E i \in 1..Len(calls) : execBatch(i)

\* the deprecated client ledger under read-then-update callers, in an enabled
\* manager
LegacySpec == InitEnabled /\ [][LegacyNext]_vars

\* a public operation is called
Call ==
  \/ checkHealth
  \/ close
  \/ \E k \in ExpiryKeys, u \in Urls : getCachedResponse(k, u)
  \/ \E k \in ExpiryKeys, u \in Urls, r \in Responses : setCachedResponse(k, u, r)
  \/ \E k \in ExpiryKeys : invalidateCache(k)
  \/ \E d \in DeploymentKeys, l \in Labels, st \in Statuses : incrementLabelStatusCount(d, l, st)
  \/ \E d \in DeploymentKeys, l \in Labels, pd \in Optional(DeploymentKeys), pl \in Optional(Labels) :
       recordUpdate(d, l, pd, pl)
  \/ \E d \in DeploymentKeys : clearMetricsForDeploymentKey(d)
  \/ \E d \in DeploymentKeys : getMetricsWithDeploymentKey(d)
  \/ \E d \in DeploymentKeys, c \in ClientIds : removeDeploymentKeyClientActiveLabel(d, c)
  \/ \E d \in DeploymentKeys, c \in ClientIds : getCurrentActiveLabel(d, c)
  \/ \E d \in DeploymentKeys, c \in ClientIds, to \in Labels, from \in Optional(Labels) :
       updateActiveAppForClient(d, c, to, from)

\* a call in flight takes its next step
Step(i) ==
  \/ setCachedResponse_hSet(i)
  \/ setCachedResponse_expire(i)
  \/ incrementLabelStatusCount_then(i)
  \/ recordUpdate_then(i)
  \/ updateActiveAppForClient_then(i)
  \/ execBatch(i)
  \/ clearMetricsForDeploymentKey_then(i)
  \/ getMetricsWithDeploymentKey_then(i)
  \/ removeDeploymentKeyClientActiveLabel_then(i)
  \/ getCurrentActiveLabel_then(i)
  \/ \E conn \in {"ops", "metrics"}, ok \in BOOLEAN : checkHealth_ping(i, conn, ok)
  \/ \E conn \in {"ops", "metrics"} : close_quit(i, conn)

Next ==
  \/ Setup
  \/ Len(calls) < MaxCallsAll /\ Call
  \/ \E i \in 1..Len(calls) : Step(i)
  \/ Tick

\* the whole manager, enabled or disabled
Spec == Init /\ [][Next]_vars

(***************************************************************************)
(* Properties.                                                             *)
(***************************************************************************)
CallIds == 1..Len(calls)
IsOp(i, op) == calls[i].op = op
Done(i) == calls[i].pc = "done"
Resolved(i) == calls[i].out = "resolved"
Rejected(i) == calls[i].out = "rejected"
\* call i has issued command cmd
Issued(i, cmd) == \E n \in 1..Len(calls[i].cmds) : calls[i].cmds[n].cmd = cmd
SetsOn(k) == {i \in CallIds : IsOp(i, "setCachedResponse") /\ calls[i].args.expiryKey = k}
InvalidatesOn(k) == {i \in CallIds : IsOp(i, "invalidateCache") /\ calls[i].args.expiryKey = k}
Min(S) == CHOOSE x \in S : \A y \in S : x <= y

(***************************************************************************)
(* Properties of the metrics ledger.                                       *)
(***************************************************************************)
LabelsHashes == {getDeploymentKeyLabelsHash(d) : d \in DeploymentKeys}
\* the labels hash of every deployment key, as the database D holds it
LabelsOf(D) == [d \in DeploymentKeys |-> HGetAll(D, getDeploymentKeyLabelsHash(d))]
\* the counter held in field `field` of hash `key` (0 when absent)
Counter(D, key, field) ==
  LET cur == HGet(D, key, field) IN IF cur = NULL THEN 0 ELSE Atoi(cur)

RECURSIVE Flatten(_)
Flatten(batches) == IF batches = <<>> THEN <<>> ELSE Head(batches) \o Flatten(Tail(batches))

\* all the store commands of call i, as one sequence
WholeCommands(i) ==
  LET a == calls[i].args
  IN  CASE IsOp(i, "recordUpdate") ->
             Flatten(RecordUpdateBatches(a.currentDeploymentKey, a.currentLabel,
                                         a.previousDeploymentKey, a.previousLabel))
        [] IsOp(i, "incrementLabelStatusCount") ->
             <<IncrementCommand(a.deploymentKey, a.label, a.status)>>
        [] IsOp(i, "clearMetricsForDeploymentKey") -> <<ClearCommand(a.deploymentKey)>>
        [] OTHER -> <<>>

RECURSIVE Orderings(_)
\* the orderings of all the elements of S
Orderings(S) ==
  IF S = {} THEN {<<>>}
  ELSE UNION {{<<x>> \o t : t \in Orderings(S \ {x})} : x \in S}
\* the orderings of the subsets of S
PartialOrderings(S) == UNION {Orderings(T) : T \in SUBSET S}

RECURSIVE LedgerAfter(_)
\* the metrics database after the calls of `order` ran whole, one after another
LedgerAfter(order) ==
  IF order = <<>> THEN EmptyDb
  ELSE ApplyAll(LedgerAfter(SubSeq(order, 1, Len(order) - 1)),
                WholeCommands(order[Len(order)]))

\* C1: the mutations of one recordUpdate become visible as one indivisible
\* step: in every state the labels hashes are what some of the calls, each
\* run whole and one after another, leave behind, and so is everything a
\* getMetricsWithDeploymentKey has read; never part of a call's mutations.
C1_RecordUpdateIsIndivisible ==
  /\ \E order \in PartialOrderings(CallIds) :
       LabelsOf(store[METRICS_DB]) = LabelsOf(LedgerAfter(order))
  /\ \A g \in CallIds :
       IsOp(g, "getMetricsWithDeploymentKey") /\ Resolved(g) =>
         \E order \in PartialOrderings(CallIds) :
           calls[g].res =
             ResVal(DeploymentMetrics(
               HGetAll(LedgerAfter(order),
                       getDeploymentKeyLabelsHash(calls[g].args.deploymentKey))))

\* a reader that ran while a recordUpdate moving a client between two
\* deployment keys was in flight, and saw the ledger with that call applied
C1_Witness ==
  \E i, g \in CallIds :
    /\ IsOp(i, "recordUpdate") /\ IsOp(g, "getMetricsWithDeploymentKey")
    /\ i < g /\ ~calls[g].solo /\ Resolved(i) /\ Resolved(g)
    /\ Truthy(calls[i].args.previousDeploymentKey) /\ Truthy(calls[i].args.previousLabel)
    /\ calls[i].args.previousDeploymentKey # calls[i].args.currentDeploymentKey
    /\ calls[g].args.deploymentKey = calls[i].args.previousDeploymentKey
    /\ calls[g].res =
         ResVal(getLabelActiveCountField(calls[i].args.previousLabel) :> Itoa(-1))

ValidStatuses == {st \in Statuses : isValidDeploymentStatus(st)}

\* C2: with incrementLabelStatusCount calls running concurrently from an
\* empty ledger, the field label:status of a deployment's labels hash holds
\* exactly the number of calls for (deploymentKey, label, status) that have
\* completed: N once N calls have, whatever the interleaving.
C2_NoLostIncrement ==
  \A d \in DeploymentKeys, l \in Labels, st \in ValidStatuses :
    LET n == Cardinality({i \in CallIds :
                 /\ IsOp(i, "incrementLabelStatusCount") /\ Resolved(i)
                 /\ calls[i].args = [deploymentKey |-> d, label |-> l, status |-> st]})
        hash == getDeploymentKeyLabelsHash(d)
        field == getLabelStatusField(l, st)
    IN  /\ Counter(store[METRICS_DB], hash, field) = n
        /\ HGet(store[METRICS_DB], hash, field) = IF n = 0 THEN NULL ELSE Itoa(n)

\* three calls with the same arguments, all in flight together, all completed
C2_Witness ==
  /\ Len(calls) = 3
  /\ \A i \in CallIds :
       /\ IsOp(i, "incrementLabelStatusCount") /\ Resolved(i) /\ calls[i].args = calls[1].args
       /\ i > 1 => ~calls[i].solo
  /\ isValidDeploymentStatus(calls[1].args.status)
  /\ HGet(store[METRICS_DB], getDeploymentKeyLabelsHash(calls[1].args.deploymentKey),
          getLabelStatusField(calls[1].args.label, calls[1].args.status)) = <<"3">>

\* what one recordUpdate adds to the counter in field `field` of hash `key`
RecordUpdateDelta(a, key, field) ==
  (IF key = getDeploymentKeyLabelsHash(a.currentDeploymentKey)
      /\ field = getLabelActiveCountField(a.currentLabel) THEN 1 ELSE 0)
  + (IF key = getDeploymentKeyLabelsHash(a.currentDeploymentKey)
        /\ field = getLabelStatusField(a.currentLabel, DEPLOYMENT_SUCCEEDED) THEN 1 ELSE 0)
  - (IF a.previousDeploymentKey # NULL /\ a.previousLabel # NULL
        /\ key = getDeploymentKeyLabelsHash(a.previousDeploymentKey)
        /\ field = getLabelActiveCountField(a.previousLabel) THEN 1 ELSE 0)

\* the fields one recordUpdate writes in hash `key`
RecordUpdateFields(a, key) ==
  (IF key = getDeploymentKeyLabelsHash(a.currentDeploymentKey)
   THEN {getLabelActiveCountField(a.currentLabel),
         getLabelStatusField(a.currentLabel, DEPLOYMENT_SUCCEEDED)} ELSE {})
  \cup (IF a.previousDeploymentKey # NULL /\ a.previousLabel # NULL
           /\ key = getDeploymentKeyLabelsHash(a.previousDeploymentKey)
        THEN {getLabelActiveCountField(a.previousLabel)} ELSE {})

\* the step in which the store executes the batch of recordUpdate call i
C3_Commit(i) ==
  /\ i \in CallIds /\ IsOp(i, "recordUpdate")
  /\ calls[i].pc = "exec" /\ calls'[i].out = "resolved"

\* the frame of that step: the two (or three) counters move by one, nothing
\* else of any database changes
C3_Frame ==
  \A i \in CallIds :
    C3_Commit(i) =>
      LET a == calls[i].args
          D == store[METRICS_DB]
          E == store'[METRICS_DB]
      IN  /\ store'[0] = store[0] /\ E.ttl = D.ttl
          /\ DOMAIN E.data = DOMAIN D.data \cup {k \in LabelsHashes : RecordUpdateFields(a, k) # {}}
          /\ \A k \in DOMAIN E.data \ LabelsHashes : E.data[k] = D.data[k]
          /\ \A k \in LabelsHashes :
               /\ DOMAIN HGetAll(E, k) = DOMAIN HGetAll(D, k) \cup RecordUpdateFields(a, k)
               /\ \A f \in DOMAIN HGetAll(E, k) :
                    Counter(E, k, f) = Counter(D, k, f) + RecordUpdateDelta(a, k, f)

\* k calls recordUpdate(d, l) and nothing else on an empty ledger: the report
\* for d is {l:Active = k, l:DeploymentSucceeded = k}
C3_Report ==
  \A d \in DeploymentKeys, l \in Labels :
    ( /\ calls # <<>>
      /\ \A i \in CallIds :
           /\ IsOp(i, "recordUpdate") /\ Resolved(i)
           /\ calls[i].args = [currentDeploymentKey |-> d, currentLabel |-> l,
                               previousDeploymentKey |-> NULL, previousLabel |-> NULL] )
    => /\ DeploymentMetrics(HGetAll(store[METRICS_DB], getDeploymentKeyLabelsHash(d)))
            = (getLabelActiveCountField(l) :> Itoa(Len(calls)))
              @@ (getLabelStatusField(l, DEPLOYMENT_SUCCEEDED) :> Itoa(Len(calls)))
       /\ \A o \in DeploymentKeys \ {d} :
            HGetAll(store[METRICS_DB], getDeploymentKeyLabelsHash(o)) = EmptyMap

C4_InvalidStatusIsNoOp ==
  /\ \A i \in CallIds :
       ( /\ IsOp(i, "incrementLabelStatusCount") /\ Done(i)
         /\ ~isValidDeploymentStatus(calls[i].args.status) )
       => Resolved(i) /\ ~Issued(i, "hIncrBy")
  /\ ( \A i \in CallIds : IsOp(i, "incrementLabelStatusCount")
                           /\ ~isValidDeploymentStatus(calls[i].args.status) )
     => \A d \in DeploymentKeys :
          HGetAll(store[METRICS_DB], getDeploymentKeyLabelsHash(d)) = EmptyMap

RECURSIVE SumOver(_, _)
\* the sum of f over the set S
SumOver(f, S) ==
  IF S = {} THEN 0
  ELSE LET x == CHOOSE y \in S : TRUE IN f[x] + SumOver(f, S \ {x})

\* the sum of all label:Active counters over all deployment keys
ActiveSum ==
  SumOver([p \in DeploymentKeys \X Labels |->
             Counter(store[METRICS_DB], getDeploymentKeyLabelsHash(p[1]),
                     getLabelActiveCountField(p[2]))],
          DeploymentKeys \X Labels)

\* call i supplies a previous pair
HasPreviousPair(i) ==
  Truthy(calls[i].args.previousDeploymentKey) /\ Truthy(calls[i].args.previousLabel)

\* C17: in every state of any interleaving of recordUpdate calls alone, the
\* sum of all label:Active counters over all deployment keys is the number
\* of committed recordUpdate calls that supplied no previous pair: a call
\* with a previous pair leaves the sum unchanged, one without raises it by 1.
C17_ActiveSumConsistent ==
  ( \A i \in CallIds : IsOp(i, "recordUpdate") ) =>
    ActiveSum = Cardinality({i \in CallIds : Resolved(i) /\ ~HasPreviousPair(i)})

\* a first report and, in flight beside it, a report that moves a client
\* between labels, both committed: the sum is 1
C17_Witness ==
  /\ Len(calls) = 2 /\ \A i \in CallIds : IsOp(i, "recordUpdate") /\ Resolved(i)
  /\ ~HasPreviousPair(1) /\ HasPreviousPair(2) /\ ~calls[2].solo
  /\ ActiveSum = 1

Reports == {i \in CallIds : IsOp(i, "recordUpdate")}
Max(S) == CHOOSE x \in S : \A y \in S : x >= y

\* the reports can be dealt out to clients so that each client makes its
\* reports one after another and supplies as previous pair the pair of its
\* own preceding report, none on its first
Disciplined ==
  \E client \in [Reports -> ClientIds] :
    \A i \in Reports :
      LET earlier == {j \in Reports : j < i /\ client[j] = client[i]}
          a == calls[i].args
      IN  IF earlier = {}
          THEN a.previousDeploymentKey = NULL /\ a.previousLabel = NULL
          ELSE /\ calls[i].solo
               /\ a.previousDeploymentKey = calls[Max(earlier)].args.currentDeploymentKey
               /\ a.previousLabel = calls[Max(earlier)].args.currentLabel

\* C19 as the spec states it: no label:Active counter is ever negative in
\* any sequence of recordUpdate and clearMetricsForDeploymentKey calls in
\* which each client supplies as previous pair the pair of its own preceding
\* completed recordUpdate, or none on its first report.
C19_ActiveNeverNegative ==
  ( /\ \A i \in CallIds : calls[i].op \in {"recordUpdate", "clearMetricsForDeploymentKey"}
    /\ Disciplined )
  => \A d \in DeploymentKeys, l \in Labels :
       Counter(store[METRICS_DB], getDeploymentKeyLabelsHash(d), getLabelActiveCountField(l)) >= 0

\* for every label of deployment key d, label:Active is the number of clients
\* whose value in the clients hash of d is that label
ActiveMatchesClients(d) ==
  \A l \in Labels :
    Counter(store[METRICS_DB], getDeploymentKeyLabelsHash(d), getLabelActiveCountField(l))
      = Cardinality({c \in ClientIds :
                       HGet(store[METRICS_DB], getDeploymentKeyClientsHash(d), c) = l})

\* the step in which the store executes the batch of updateActiveAppForClient
\* call i: the client's label is written and the counters are adjusted in one
\* step, and nothing else changes
C20_BatchStep ==
  \A i \in CallIds :
    IsOp(i, "updateActiveAppForClient") /\ calls[i].pc = "exec" /\ calls'[i] # calls[i] =>
      LET a == calls[i].args
          clientsHash == getDeploymentKeyClientsHash(a.deploymentKey)
          labelsHash == getDeploymentKeyLabelsHash(a.deploymentKey)
          D == store[METRICS_DB]
          E == store'[METRICS_DB]
      IN  /\ calls'[i].out = "resolved" /\ calls'[i].pc = "done"
          /\ HGetAll(E, clientsHash) = (a.clientUniqueId :> a.toLabel) @@ HGetAll(D, clientsHash)
          /\ \A l \in Labels :
               Counter(E, labelsHash, getLabelActiveCountField(l))
                 = Counter(D, labelsHash, getLabelActiveCountField(l))
                   + (IF l = a.toLabel THEN 1 ELSE 0)
                   - (IF a.fromLabel # NULL /\ l = a.fromLabel THEN 1 ELSE 0)
          /\ DOMAIN E.data = DOMAIN D.data \cup {clientsHash, labelsHash}
          /\ \A k \in DOMAIN D.data \ {clientsHash, labelsHash} : E.data[k] = D.data[k]
          /\ store'[0] = store[0]

\* C20 as the spec states it: updateActiveAppForClient applies the
\* clients-hash write and the Active adjustments as one indivisible batch,
\* and with callers that pass as fromLabel what getCurrentActiveLabel gave
\* them, in every quiescent state of any interleaving label:Active is the
\* number of clients whose clients-hash value is that label.
C20_LegacyLedgerConsistent ==
  /\ [](Quiescent => ActiveMatchesClients(LegacyDeploymentKey))
  /\ [][C20_BatchStep]_vars

\* the read-then-update sequences for one client do not overlap: each
\* getCurrentActiveLabel for a client is called when the updates that follow
\* the earlier reads for that client have completed
C20_OneCallerPerClient ==
  \A c \in ClientIds : \A r \in LegacyReads(c) :
    Cardinality(LegacyUpdates(c) \cap calls[r].after)
      = Cardinality({q \in LegacyReads(c) : q < r})

\* what holds of the legacy ledger: the batch is indivisible, and when the
\* read-then-update sequences for one and the same client do not overlap,
\* in every quiescent state label:Active is the number of clients whose
\* clients-hash value is that label
C20_LegacyLedgerConsistentPerClient ==
  /\ [](Quiescent /\ C20_OneCallerPerClient => ActiveMatchesClients(LegacyDeploymentKey))
  /\ [][C20_BatchStep]_vars

\* one client moved from a first label to a second by two read-then-update
\* sequences, one after the other
C20_MovedInTurn ==
  /\ Quiescent /\ C20_OneCallerPerClient
  /\ \E c \in ClientIds, l, m \in Labels :
       /\ l # m /\ Cardinality(LegacyUpdates(c)) = 2
       /\ HGet(store[METRICS_DB], getDeploymentKeyClientsHash(LegacyDeploymentKey), c) = m
       /\ HGet(store[METRICS_DB], getDeploymentKeyLabelsHash(LegacyDeploymentKey),
               getLabelActiveCountField(l)) = <<"0">>
       /\ HGet(store[METRICS_DB], getDeploymentKeyLabelsHash(LegacyDeploymentKey),
               getLabelActiveCountField(m)) = <<"1">>

\* the calls that write to a hash of deployment key d
MetricsWritesTo(d) ==
  {w \in CallIds :
     \/ IsOp(w, "incrementLabelStatusCount") /\ calls[w].args.deploymentKey = d
     \/ IsOp(w, "updateActiveAppForClient") /\ calls[w].args.deploymentKey = d
     \/ IsOp(w, "recordUpdate") /\ ( \/ calls[w].args.currentDeploymentKey = d
                                    \/ calls[w].args.previousDeploymentKey = d )}

\* the callback of call i runs in this step and its command succeeds
Answered(i) == calls[i].pc = "await" /\ calls'[i].out = "resolved"

\* a completed clearMetricsForDeploymentKey(d) issued the one command
\* del(labels hash of d, clients hash of d)
C11_OneCommand ==
  \A i \in CallIds :
    IsOp(i, "clearMetricsForDeploymentKey") /\ Resolved(i) /\ calls[i].cmds # <<>> =>
      calls[i].cmds =
        << Cmd("metrics", "del", <<getDeploymentKeyLabelsHash(calls[i].args.deploymentKey),
                                   getDeploymentKeyClientsHash(calls[i].args.deploymentKey)>>) >>

\* the step of that command: both hashes of d are gone, everything else stays
C11_ClearStep ==
  \A i \in CallIds :
    IsOp(i, "clearMetricsForDeploymentKey") /\ Answered(i) =>
      LET d    == calls[i].args.deploymentKey
          gone == {getDeploymentKeyLabelsHash(d), getDeploymentKeyClientsHash(d)}
          D    == store[METRICS_DB]
          E    == store'[METRICS_DB]
      IN  /\ DOMAIN E.data = DOMAIN D.data \ gone
          /\ \A k \in DOMAIN E.data : E.data[k] = D.data[k]
          /\ E.ttl = D.ttl /\ store'[0] = store[0]

\* a completed clear of the deployment key of call g, called when every write
\* to that key made so far had completed, and no write to it called since
C11_Cleared(g) ==
  \E m \in CallIds :
    /\ IsOp(m, "clearMetricsForDeploymentKey") /\ Resolved(m) /\ calls[m].cmds # <<>>
    /\ calls[m].args.deploymentKey = calls[g].args.deploymentKey
    /\ calls[m].solo
    /\ \A w \in MetricsWritesTo(calls[g].args.deploymentKey) : w < m

\* a read that runs after such a clear finds nothing
C11_ReadStep ==
  \A g \in CallIds :
    /\ ( IsOp(g, "getMetricsWithDeploymentKey") /\ Answered(g) /\ C11_Cleared(g)
         => calls'[g].res = ResVal(EmptyMap) )
    /\ ( IsOp(g, "getCurrentActiveLabel") /\ Answered(g) /\ C11_Cleared(g)
         => calls'[g].res = ResNull )

\* C11: clearMetricsForDeploymentKey(d) deletes the labels hash and the
\* clients hash of d in one command and leaves the hashes of every other
\* deployment key unchanged; a getMetricsWithDeploymentKey(d) and a
\* getCurrentActiveLabel(d, c) that run after it, with no write to d in
\* between, return empty and absent.
C11_ClearRemovesBothHashes ==
  [](C11_OneCommand) /\ [][C11_ClearStep /\ C11_ReadStep]_vars

\* a client's label written, its deployment key cleared, and a read of the
\* client's active label that then found nothing
C11_Witness ==
  \E w, m, g \in CallIds :
    /\ w < m /\ m < g
    /\ IsOp(w, "updateActiveAppForClient") /\ Resolved(w)
    /\ IsOp(m, "clearMetricsForDeploymentKey") /\ Resolved(m) /\ calls[m].solo
    /\ IsOp(g, "getCurrentActiveLabel") /\ Resolved(g) /\ calls[g].solo
    /\ calls[w].args.deploymentKey = calls[m].args.deploymentKey
    /\ calls[g].args.deploymentKey = calls[m].args.deploymentKey
    /\ calls[g].args.clientUniqueId = calls[w].args.clientUniqueId
    /\ calls[g].res = ResNull
    /\ getDeploymentKeyClientsHash(calls[m].args.deploymentKey) \notin DOMAIN store[METRICS_DB].data
    /\ getDeploymentKeyLabelsHash(calls[m].args.deploymentKey) \notin DOMAIN store[METRICS_DB].data

(***************************************************************************)
(* Properties of the whole manager.                                        *)
(***************************************************************************)
Unconfigured == ~clients.ops.made /\ ~clients.metrics.made
Untouched ==
  /\ store = [n \in DbIndexes |-> EmptyDb] /\ setup.cmds = <<>>
  /\ \A i \in CallIds : Done(i) /\ calls[i].cmds = <<>>

\* C5 as the spec states it: in a manager constructed without host and port,
\* every public operation resolves with its null result and issues no store
\* command.
C5_DisabledAllResolveNull ==
  Unconfigured =>
    /\ Untouched
    /\ \A i \in CallIds : Resolved(i) /\ calls[i].res = ResNull

\* C5 amended: in a manager constructed without host and port, every public
\* operation other than checkHealth resolves with its null result, checkHealth
\* is rejected as not enabled, and none issues a store command.
C5_DisabledNoCommands ==
  Unconfigured =>
    /\ Untouched
    /\ \A i \in CallIds :
         IF IsOp(i, "checkHealth")
         THEN Rejected(i) /\ calls[i].res = ResErr(NOT_ENABLED)
         ELSE Resolved(i) /\ calls[i].res = ResNull

\* a disabled manager after a metrics write and a cache write were called
C5_Witness ==
  /\ Unconfigured
  /\ \E i, j \in CallIds : i < j /\ IsOp(i, "recordUpdate") /\ IsOp(j, "setCachedResponse")

MetricsOperations ==
  {"incrementLabelStatusCount", "recordUpdate", "removeDeploymentKeyClientActiveLabel",
   "getMetricsWithDeploymentKey", "clearMetricsForDeploymentKey", "getCurrentActiveLabel",
   "updateActiveAppForClient"}
SetupCommands ==
  << Cmd("metrics", "select", <<Itoa(METRICS_DB)>>),
     Cmd("metrics", "set", <<(<<"health">>), (<<"health">>)>>) >>

\* C12: in an enabled manager the setup of the metrics connection (select of
\* the metrics database, then the write of the health key) is issued once,
\* by the constructor, however many metrics operations are called, and no
\* metrics operation issues a command before both steps have succeeded.
C12_SetupOnceBeforeMetrics ==
  /\ \E n \in 0..Len(SetupCommands) : setup.cmds = SubSeq(SetupCommands, 1, n)
  /\ setup.pc = "resolved" => setup.cmds = SetupCommands
  /\ Unconfigured => setup.cmds = <<>>
  /\ \A i \in CallIds :
       /\ \A n \in 1..Len(calls[i].cmds) : calls[i].cmds[n].cmd \notin {"select", "set"}
       /\ calls[i].op \in MetricsOperations /\ calls[i].cmds # <<>> =>
            /\ setup.pc = "resolved" /\ clients.metrics.db = METRICS_DB
            /\ <<"health">> \in DOMAIN store[METRICS_DB].data

\* two metrics operations in flight together, both answered, after one setup
C12_Witness ==
  /\ setup.cmds = SetupCommands
  /\ \E i, j \in CallIds :
       /\ i < j /\ ~calls[j].solo
       /\ calls[i].op \in MetricsOperations /\ calls[j].op \in MetricsOperations
       /\ Resolved(i) /\ Resolved(j) /\ calls[i].cmds # <<>> /\ calls[j].cmds # <<>>

CacheOperations == {"getCachedResponse", "setCachedResponse", "invalidateCache"}
MetricsDataCommands == {"hIncrBy", "hGetAll", "hGet", "hSet", "hDel", "del", "multi", "exec"}

\* the calls of `ops` that are made or take a step in this step
Stepping(ops) ==
  {i \in 1..Len(calls') : calls'[i].op \in ops /\ (i > Len(calls) \/ calls'[i] # calls[i])}

\* every command of a cache operation is on the ops connection, which stays
\* on the default database; every data command of a metrics operation is on
\* the metrics connection, issued once METRICS_DB is selected
C13_Connections ==
  /\ clients.ops.db = 0
  /\ \A i \in CallIds : \A n \in 1..Len(calls[i].cmds) :
       /\ calls[i].op \in CacheOperations => calls[i].cmds[n].conn = "ops"
       /\ calls[i].op \in MetricsOperations =>
            /\ calls[i].cmds[n].conn = "metrics" /\ calls[i].cmds[n].cmd \in MetricsDataCommands
            /\ clients.metrics.db = METRICS_DB

\* what the two datasets hold: the default database only what
\* setCachedResponse calls wrote, the metrics database under the labels
\* hash only counters
C13_Datasets ==
  /\ \A k \in DOMAIN store[0].data : \A u \in DOMAIN store[0].data[k] :
       \E w \in CallIds :
         /\ IsOp(w, "setCachedResponse") /\ calls[w].args.expiryKey = k /\ calls[w].args.url = u
         /\ store[0].data[k][u] = JSONStringify(calls[w].args.response)
  /\ \A k \in DOMAIN store[METRICS_DB].data \cap LabelsHashes :
       \A f \in DOMAIN store[METRICS_DB].data[k] : IsNumeric(store[METRICS_DB].data[k][f])
  /\ DOMAIN store[METRICS_DB].ttl = {}

\* no read crosses over: without a cache write a cache read finds nothing,
\* without a metrics write a metrics read finds nothing
C13_Reads ==
  /\ ( \A w \in CallIds : ~IsOp(w, "setCachedResponse") ) =>
       \A g \in CallIds : IsOp(g, "getCachedResponse") /\ Resolved(g) => calls[g].res = ResNull
  /\ ( \A w \in CallIds : calls[w].op \notin {"incrementLabelStatusCount", "recordUpdate",
                                                "updateActiveAppForClient"} ) =>
       \A g \in CallIds :
         IsOp(g, "getMetricsWithDeploymentKey") /\ Resolved(g) /\ calls[g].cmds # <<>>
           => calls[g].res = ResVal(EmptyMap)

\* a step of a cache operation leaves the metrics database as it is, a step
\* of a metrics operation leaves the default database as it is
C13_Step ==
  /\ Stepping(CacheOperations) # {} => store'[METRICS_DB] = store[METRICS_DB]
  /\ Stepping(MetricsOperations) # {} => store'[0] = store[0]

\* C13: the cache dataset and the metrics dataset are isolated: cache
\* commands run on the ops connection in the default database, metrics data
\* commands on the metrics connection once the metrics database is selected,
\* and no cache operation reads or changes a labels or clients hash nor a
\* metrics operation a cache collection, even under textually equal keys.
C13_DatasetsIsolated ==
  [](C13_Connections /\ C13_Datasets /\ C13_Reads) /\ [][C13_Step]_vars

\* a cache entry and a counter stored under the same key and field, each in
\* its own database
C13_Witness ==
  /\ HGet(store[0], SharedKey, SharedField) # NULL
  /\ HGet(store[METRICS_DB], SharedKey, SharedField) = <<"1">>
  /\ \E w, v \in CallIds :
       /\ IsOp(w, "setCachedResponse") /\ Resolved(w) /\ calls[w].args.expiryKey = SharedKey
       /\ IsOp(v, "incrementLabelStatusCount") /\ Resolved(v)
       /\ getDeploymentKeyLabelsHash(calls[v].args.deploymentKey) = calls[w].args.expiryKey

\* the commands call i issues in this step
NewCommands(i) ==
  IF i > Len(calls) THEN calls'[i].cmds
  ELSE SubSeq(calls'[i].cmds, Len(calls[i].cmds) + 1, Len(calls'[i].cmds))

\* call i issues in this step a command that its connection, being closed,
\* rejects
C14_CommandRejected(i) ==
  \E n \in 1..Len(NewCommands(i)) : ~clients[NewCommands(i)[n].conn].open

\* the operation whose command is rejected is rejected, and a settled
\* operation issues no further command
C14_Step ==
  /\ \A i \in 1..Len(calls') :
       calls'[i].op # "checkHealth" /\ C14_CommandRejected(i) =>
         calls'[i].out = "rejected" /\ calls'[i].pc = "done"
  /\ \A i \in CallIds :
       /\ calls[i].pc = "done" => calls'[i] = calls[i]
       /\ calls[i].out # "pending" =>
            calls'[i].out = calls[i].out /\ calls'[i].cmds = calls[i].cmds

\* a failed ping rejects checkHealth; a rejected setCachedResponse stopped at
\* the command that failed: exists without hSet, or hSet without expire when
\* one was due
C14_Stopped ==
  \A i \in CallIds :
    /\ IsOp(i, "checkHealth") /\ ~Unconfigured /\ "fail" \in {calls[i].pings.ops, calls[i].pings.metrics}
         => Rejected(i)
    /\ IsOp(i, "setCachedResponse") /\ Rejected(i) =>
         LET a == calls[i].args
             exists == Cmd("ops", "exists", <<a.expiryKey>>)
             hSet == Cmd("ops", "hSet", <<a.expiryKey, a.url, JSONStringify(a.response)>>)
             expire == Cmd("ops", "expire", <<a.expiryKey, Itoa(DEFAULT_EXPIRY)>>)
         IN  \/ calls[i].cmds = <<exists>>
             \/ calls[i].cmds = <<exists, hSet>>
             \/ calls[i].cmds = <<exists, hSet, expire>> /\ calls[i].isNewKey

\* C14: in an enabled manager, an operation one of whose store commands is
\* rejected has its promise rejected, never resolved, and issues none of its
\* remaining commands: no hSet and no expire after a failed exists, no expire
\* after a failed hSet.
C14_RejectionPropagates == [](C14_Stopped) /\ [][C14_Step]_vars

\* a setCachedResponse on a new key whose hSet failed: rejected, and the
\* expire that was due never issued
C14_Witness ==
  \E i \in CallIds :
    /\ IsOp(i, "setCachedResponse") /\ Rejected(i) /\ calls[i].isNewKey
    /\ Len(calls[i].cmds) = 2 /\ calls[i].cmds[2].cmd = "hSet"
    /\ calls[i].args.expiryKey \notin DOMAIN store[0].data

Closes == {i \in CallIds : IsOp(i, "close")}
BothClosed == ~clients.ops.open /\ ~clients.metrics.open

\* close in a manager that was never enabled resolves without a command; the
\* first close of an enabled manager, no other close running beside it, quits
\* the ops connection, then the metrics connection, and resolves with both
\* terminated
C15_FirstClose ==
  \A i \in Closes :
    /\ Unconfigured => Resolved(i) /\ calls[i].cmds = <<>>
    /\ ( /\ ~Unconfigured /\ i = Min(Closes) /\ Done(i)
         /\ \A j \in Closes \ {i} : calls[j].solo ) =>
         /\ Resolved(i) /\ BothClosed
         /\ calls[i].cmds = <<Cmd("ops", "quit", <<>>), Cmd("metrics", "quit", <<>>)>>

\* C15 as the spec states it: close is safe and idempotent: (the above, and)
\* a second close, called after the first has completed, also resolves
\* successfully and leaves both connections terminated.
C15_CloseIdempotent ==
  /\ C15_FirstClose
  /\ \A j \in Closes :
       j # Min(Closes) /\ calls[j].solo /\ Done(j) => Resolved(j) /\ BothClosed

\* C6: checkHealth is rejected as not enabled, without a command, in a
\* disabled manager; in an enabled one it issues one ping on each connection,
\* resolves only when both pings have succeeded and is rejected when either
\* fails.
C6_CheckHealth ==
  \A i \in CallIds :
    IsOp(i, "checkHealth") =>
      IF Unconfigured
      THEN Rejected(i) /\ calls[i].res = ResErr(NOT_ENABLED) /\ calls[i].cmds = <<>>
      ELSE /\ calls[i].cmds = <<Cmd("ops", "ping", <<>>), Cmd("metrics", "ping", <<>>)>>
           /\ Resolved(i) <=> (calls[i].pings.ops = "ok" /\ calls[i].pings.metrics = "ok")
           /\ Rejected(i) <=> (calls[i].pings.ops = "fail" \/ calls[i].pings.metrics = "fail")

\* a health check that succeeded beside one that failed on the metrics ping
C6_Witness ==
  \E i, j \in CallIds :
    /\ IsOp(i, "checkHealth") /\ IsOp(j, "checkHealth")
    /\ Resolved(i) /\ calls[i].pings = [ops |-> "ok", metrics |-> "ok"]
    /\ Rejected(j) /\ calls[j].pings = [ops |-> "ok", metrics |-> "fail"]

(***************************************************************************)
(* Properties of the response cache.                                       *)
(***************************************************************************)
\* the three commands of a setCachedResponse call, in the order of the source
SetCommands(i) ==
  LET a == calls[i].args
  IN  << Cmd("ops", "exists", <<a.expiryKey>>),
         Cmd("ops", "hSet", <<a.expiryKey, a.url, JSONStringify(a.response)>>),
         Cmd("ops", "expire", <<a.expiryKey, Itoa(DEFAULT_EXPIRY)>>) >>

\* what a call has issued so far: exists; then hSet, exists having answered;
\* then expire, hSet having answered, exactly when exists reported no key
C16_Issued ==
  \A i \in CallIds :
    IsOp(i, "setCachedResponse") =>
      /\ calls[i].pc = "hSet" => calls[i].cmds = SubSeq(SetCommands(i), 1, 1)
      /\ calls[i].pc = "expire" => calls[i].cmds = SubSeq(SetCommands(i), 1, 2) /\ calls[i].isNewKey
      /\ Done(i) => /\ Resolved(i)
                     /\ calls[i].cmds = SubSeq(SetCommands(i), 1, IF calls[i].isNewKey THEN 3 ELSE 2)
                     /\ Issued(i, "expire") <=> calls[i].isNewKey

\* a call issues one command per step, each when the one before has
\* answered, and isNewKey is what its exists reported
C16_Step ==
  \A i \in 1..Len(calls') :
    calls'[i].op = "setCachedResponse" =>
      IF i > Len(calls)
      THEN /\ calls'[i].cmds = SubSeq(SetCommands(i)', 1, 1)
           /\ calls'[i].isNewKey = (calls'[i].args.expiryKey \notin DOMAIN store[0].data)
      ELSE /\ calls'[i].isNewKey = calls[i].isNewKey
           /\ \/ calls'[i].cmds = calls[i].cmds
              \/ /\ calls[i].pc = "hSet"
                 /\ calls'[i].cmds = Append(calls[i].cmds, SetCommands(i)[2])
                 /\ store'[0] = Apply(store[0], SetCommands(i)[2])
              \/ /\ calls[i].pc = "expire"
                 /\ calls'[i].cmds = Append(calls[i].cmds, SetCommands(i)[3])
                 /\ store'[0] = Apply(store[0], SetCommands(i)[3])

\* C16: within one setCachedResponse call hSet is issued only after the
\* call's exists has completed and expire only after its hSet has completed,
\* and expire is issued if and only if that exists reported that the
\* collection did not exist.
C16_CommandsInOrder == [](C16_Issued) /\ [][C16_Step]_vars

\* two completed calls on one key: the first issued exists, hSet, expire, the
\* second exists, hSet
C16_Witness ==
  \E i, j \in CallIds :
    /\ i < j /\ IsOp(i, "setCachedResponse") /\ IsOp(j, "setCachedResponse")
    /\ calls[i].args.expiryKey = calls[j].args.expiryKey
    /\ Done(i) /\ Done(j) /\ calls[j].solo
    /\ Len(calls[i].cmds) = 3 /\ Len(calls[j].cmds) = 2

\* C18 as the spec states it: every populated cache collection carries a
\* TTL: once every setCachedResponse in flight has completed without a store
\* error, whatever the interleaving with invalidateCache and expiry, a
\* collection that holds an entry has an expiry set.
C18_PopulatedHasTtl ==
  ( \A i \in CallIds : IsOp(i, "setCachedResponse") => Done(i) /\ Resolved(i) )
  => \A k \in DOMAIN store[0].data : k \in DOMAIN store[0].ttl

\* C7 as the spec states it: the TTL is set only by a setCachedResponse whose
\* field write created the collection (the collection was empty just before
\* its hSet); a write that lands in a populated collection sets no TTL.
C7_TtlOnlyByCreatingWrite ==
  \A i \in CallIds :
    IsOp(i, "setCachedResponse") /\ Issued(i, "expire") => calls[i].created

\* C7 amended: the TTL is set only by a setCachedResponse whose own exists
\* check, made before its field write, found the collection absent; a call
\* whose check found the collection present issues no expire.
C7_TtlOnlyByAbsentCheck ==
  \A i \in CallIds :
    IsOp(i, "setCachedResponse") =>
      /\ Issued(i, "expire") => calls[i].isNewKey
      /\ ~calls[i].isNewKey => ~Issued(i, "expire")

\* two concurrent first writers: both found the key absent, both set the TTL,
\* and the second field write landed in the populated collection
C7_Witness ==
  \E i, j \in CallIds :
    /\ i # j /\ IsOp(i, "setCachedResponse") /\ IsOp(j, "setCachedResponse")
    /\ calls[i].args.expiryKey = calls[j].args.expiryKey
    /\ Done(i) /\ Done(j) /\ Issued(i, "expire") /\ Issued(j, "expire")
    /\ calls[i].created /\ ~calls[j].created

\* C8: setCachedResponse calls on one fresh expiryKey made one after another,
\* with no invalidateCache and no expiry of that key, issue expire exactly
\* once: the first call does, no later call does.
C8_ExpireOnceWhenSequential ==
  \A k \in ExpiryKeys :
    LET S == SetsOn(k)
    IN  ( /\ isEnabled /\ S # {}
          /\ \A i \in S : calls[i].solo /\ ~Rejected(i)
          /\ InvalidatesOn(k) = {} /\ k \notin expired )
        => /\ \A i \in S \ {Min(S)} : ~Issued(i, "expire") /\ ~calls[i].isNewKey
           /\ calls[Min(S)].isNewKey
           /\ Done(Min(S)) => Issued(Min(S), "expire")
           /\ Cardinality({i \in S : Issued(i, "expire")}) <= 1

\* three sequential writes of two urls under one key, the TTL set by the first
C8_Witness ==
  \E k \in ExpiryKeys :
    LET S == SetsOn(k)
    IN  /\ Cardinality(S) = 3 /\ \A i \in S : calls[i].solo /\ Done(i) /\ Resolved(i)
        /\ Cardinality({calls[i].args.url : i \in S}) = 2
        /\ k \notin expired
        /\ {i \in S : Issued(i, "expire")} = {Min(S)}
        /\ k \in DOMAIN store[0].ttl

\* the entry a getCachedResponse found is the one written last
WriterIsLastWrite ==
  /\ DOMAIN writer = {p \in ExpiryKeys \X Urls :
                        p[1] \in DOMAIN store[0].data /\ p[2] \in DOMAIN store[0].data[p[1]]}
  /\ \A p \in DOMAIN writer :
       /\ IsOp(writer[p], "setCachedResponse") /\ Issued(writer[p], "hSet")
       /\ calls[writer[p]].args.expiryKey = p[1] /\ calls[writer[p]].args.url = p[2]

\* C9: getCachedResponse(expiryKey, url) returns a value structurally equal to
\* the response of the setCachedResponse that wrote (expiryKey, url) last (no
\* invalidateCache or expiry of the key since), so a later write replaces an
\* earlier one.
C9_GetReturnsLastSet ==
  /\ WriterIsLastWrite
  /\ \A i \in CallIds :
       IsOp(i, "getCachedResponse") /\ calls[i].cmds # <<>> /\ Resolved(i) /\ calls[i].saw # 0
         => calls[i].res = ResVal(calls[calls[i].saw].args.response)

\* a read that returns the response of the later of two completed writes
C9_Witness ==
  \E i, j, g \in CallIds :
    /\ i < j /\ j < g
    /\ IsOp(i, "setCachedResponse") /\ IsOp(j, "setCachedResponse") /\ IsOp(g, "getCachedResponse")
    /\ calls[i].args.expiryKey = calls[g].args.expiryKey /\ calls[i].args.url = calls[g].args.url
    /\ calls[j].args.expiryKey = calls[g].args.expiryKey /\ calls[j].args.url = calls[g].args.url
    /\ calls[i].args.response # calls[j].args.response
    /\ calls[i].solo /\ calls[j].solo /\ calls[g].solo
    /\ calls[g].res = ResVal(calls[j].args.response)

\* a getCachedResponse of a key with no write before it, or with an
\* invalidateCache before it and no write (finished or in flight) since
C10_NoEntry(g) ==
  LET k == calls[g].args.expiryKey
  IN  \/ \A i \in SetsOn(k) : i > g
      \/ \E m \in InvalidatesOn(k) :
           /\ m < g /\ calls[m].solo /\ Resolved(m)
           /\ \A i \in SetsOn(k) : i < m \/ i > g

\* an invalidateCache step of key k removes k and leaves every other key's
\* collection and TTL as they were
C10_InvalidateStep ==
  \A k \in ExpiryKeys :
    ( /\ Len(calls') = Len(calls) + 1
      /\ calls'[Len(calls')].op = "invalidateCache"
      /\ calls'[Len(calls')].args.expiryKey = k
      /\ calls'[Len(calls')].out = "resolved" /\ isEnabled )
    => /\ k \notin DOMAIN store'[0].data /\ k \notin DOMAIN store'[0].ttl
       /\ \A o \in DOMAIN store[0].data \ {k} :
            o \in DOMAIN store'[0].data /\ store'[0].data[o] = store[0].data[o]
       /\ DOMAIN store'[0].data \subseteq DOMAIN store[0].data
       /\ \A o \in DOMAIN store[0].ttl \ {k} :
            o \in DOMAIN store'[0].ttl /\ store'[0].ttl[o] = store[0].ttl[o]
       /\ store'[METRICS_DB] = store[METRICS_DB]

C10_AbsentReads ==
  \A g \in CallIds :
    IsOp(g, "getCachedResponse") /\ C10_NoEntry(g) => Resolved(g) /\ calls[g].res = ResNull

\* C10: getCachedResponse returns absent for every url of a key never written
\* and of a key invalidated with no write since, and invalidateCache(k) leaves
\* the collections of every other key unchanged.
C10_AbsentWhenNotStored == [](C10_AbsentReads) /\ [][C10_InvalidateStep]_vars

\* a read that returns absent after a write and an invalidateCache of its key,
\* with the other key's collection still stored
C10_Witness ==
  \E i, m, g \in CallIds :
    /\ i < m /\ m < g
    /\ IsOp(i, "setCachedResponse") /\ IsOp(m, "invalidateCache") /\ IsOp(g, "getCachedResponse")
    /\ calls[i].args.expiryKey = calls[g].args.expiryKey /\ calls[i].args.url = calls[g].args.url
    /\ calls[m].args.expiryKey = calls[g].args.expiryKey
    /\ Resolved(i) /\ calls[i].solo /\ calls[m].solo /\ Resolved(m) /\ isEnabled
    /\ calls[g].res = ResNull

====
